---- MODULE Spec2Model ----
(***************************************************************************)
(* Model of the three-tier scheduler of stufio-modules-schedules:          *)
(* the K tier (Redis value records + time-sorted index) maintained by      *)
(* CRUDRedisScheduledEvent, the dispatch loops of ThreeTierSchedulerService *)
(* and HybridSchedulerService, the health monitor and the scheduling API.  *)
(*                                                                         *)
(* Time is counted in units of 5 minutes, the largest unit in which every  *)
(* duration the code uses on the K tier (5 min grace, 1 h window, 1 h and  *)
(* 2 h TTLs) is a whole number.                                            *)
(***************************************************************************)
EXTENDS Integers, Sequences, FiniteSets, TLC

\* ---- program constants (5-minute units) ----
GracePeriod == 1
TransferWindow == 12
TtlBuffer == 24
ProcessedTtl == 12
DefaultMaxRetries == 3
ReadyLimit == 100
LockTimeout == 1
LockDuration == 1
Day == 288

\* ---- bounds of the model ----
MaxEvents == 2
MaxTime == 2
MaxUpdates == 1
MaxRows == 2

EventIds == 1..MaxEvents
RowIds == 1..MaxRows
DefIds == {1, 2}
Replicas == {"r1", "r2"}
Services == {"three_tier", "hybrid"}
Delays == {1}
ApiDelays == {-1, 0, 1, TransferWindow, TransferWindow + 1, TransferWindow + 2}

NoValue == [status |-> "none"]
NoRow == [status |-> "none"]
NoScore == -1
NoRef == 0
NoLock == -1
NoTime == -100
NoDef == [status |-> "none"]
NoFlow == [stage |-> "none"]
NoMessage == [sent |-> FALSE]
NewBreaker ==
    [state |-> "closed", failure_count |-> 0, last_failure_time |-> NoTime, clock |-> 0,
     last_call |-> "none"]

VARIABLES
    service,      \* the scheduler service the deployment runs
    now,          \* wall clock
    kv,           \* K value records: scheduled_event:<id>
    index,        \* K sorted set scheduled_events_index: id -> score
    ch,           \* C rows
    nextId,       \* next unused event id
    bus,          \* per event: number of messages sent to the bus
    claims,       \* per event: number of claim_for_processing calls that returned True
    removed,      \* ids on which delete() returned True
    pc,           \* position of each dispatcher replica in its loop
    batch,        \* events of the current tick still to process (snapshots)
    tick_time,    \* start_time of the current tick
    hm_pc,        \* position of the health monitor in cleanup_expired
    hm_del,       \* ids queued on the cleanup pipeline
    hm_start,     \* time the running cleanup_expired call read the index
    updates,      \* number of admin updates so far
    api_error,    \* exception raised by the last schedule_event call, if any
    nextRow,      \* next unused C row id
    tr_pc,        \* position of the Promoter in its loop
    tr_batch,     \* C rows of the current transfer tick still to process (snapshots)
    tr_time,      \* start_time of the current transfer tick
    man_pc,       \* position of a trigger_manual_transfer call
    man_row,      \* the C row that call read
    copies,       \* per C row: number of K records created for it
    defs,         \* D: the schedule definitions (MongoSchedule documents)
    execs,        \* D: the execution history (MongoScheduleExecution documents)
    cg_pc,        \* position of the schedule processor in its loop
    cg_batch,     \* due schedules of the current cycle still to process (snapshots)
    cg_time,      \* start_time of the current cycle
    cg_next,      \* next_execution computed for the schedule being processed
    cg_row,       \* the C row created for the schedule being processed
    cg_made,      \* per definition: C rows created for it in the current cycle
    flow,         \* one request followed through the tiers: what each tier stored for it
    cb,           \* a CircuitBreaker object, the clock it reads and its last call
    peer,         \* a second replica of the schedule processor: position, batch, start_time
    retry,        \* the running execute_with_retry call: position, attempt, invocations
    sdef,         \* the scheduled_event_definitions document of one event class
    stats         \* the counters total_created, total_completed, total_error of the stats hash

vars == <<service, now, kv, index, ch, nextId, bus, claims, removed, pc, batch,
          tick_time, hm_pc, hm_del, hm_start, updates, api_error,
          nextRow, tr_pc, tr_batch, tr_time, man_pc, man_row, copies,
          defs, execs, cg_pc, cg_batch, cg_time, cg_next, cg_row, cg_made, flow, cb,
          peer, retry, sdef, stats>>

store == <<kv, index>>
workers == <<pc, batch, tick_time>>
monitor == <<hm_pc, hm_del, hm_start>>
history == <<bus, claims, removed, stats>>
promoter == <<tr_pc, tr_batch, tr_time, man_pc, man_row, copies>>
cron == <<defs, execs, cg_pc, cg_batch, cg_time, cg_next, cg_row, cg_made>>
aux == <<flow, cb, peer, retry, sdef>>

Min(a, b) == IF a < b THEN a ELSE b

\* the K value record create() serialises for an event it has constructed:
\* status, retry_count and max_retries as RedisScheduledEvent declares them,
\* TTL = time to scheduled_at + 2 h
NewEvent(sched, t) ==
    [status |-> "pending", scheduled_at |-> sched, expires |-> t + (sched - t) + TtlBuffer,
     retry_count |-> 0, max_retries |-> DefaultMaxRetries,
     processor_id |-> "none", claimed_at |-> -1, clickhouse_schedule_id |-> NoRef]

\* get(): the value record, or NoValue when the key is absent or its TTL ran out
get(e) == IF kv[e] # NoValue /\ now < kv[e].expires THEN kv[e] ELSE NoValue

InitStores ==
    /\ service \in Services
    /\ now = 0
    /\ kv = [e \in EventIds |-> NoValue]
    /\ index = [e \in EventIds |-> NoScore]
    /\ ch = [c \in RowIds |-> NoRow]
    /\ nextId = 1
    /\ bus = [e \in EventIds |-> 0]
    /\ claims = [e \in EventIds |-> 0]
    /\ removed = {}
    /\ stats = [total_created |-> 0, total_completed |-> 0, total_error |-> 0]
    /\ pc = [r \in Replicas |-> "idle"]
    /\ batch = [r \in Replicas |-> <<>>]
    /\ tick_time = [r \in Replicas |-> 0]
    /\ hm_pc = "idle"
    /\ hm_del = {}
    /\ hm_start = 0
    /\ updates = 0
    /\ api_error = "none"
    /\ nextRow = 1
    /\ tr_pc = "idle"
    /\ tr_batch = <<>>
    /\ tr_time = 0
    /\ man_pc = "idle"
    /\ man_row = NoRef
    /\ copies = [c \in RowIds |-> 0]
    /\ execs = {}
    /\ cg_pc = "idle"
    /\ cg_batch = <<>>
    /\ cg_time = 0
    /\ cg_next = NoTime
    /\ cg_row = NoRef
    /\ cg_made = [d \in DefIds |-> 0]
    /\ flow = NoFlow
    /\ cb = NewBreaker
    /\ peer = [pc |-> "idle", batch |-> <<>>, time |-> NoTime]
    /\ retry = [pc |-> "idle"]

\* the engine with no schedule definition stored
Init ==
    /\ InitStores
    /\ defs = [d \in DefIds |-> NoDef]
    /\ sdef = NoDef

\* CRUDRedisScheduledEvent.create: ValueError unless now < scheduled_at <= now + 1h
create_ok(sched) == sched > now /\ sched <= now + TransferWindow

\* fields of RedisScheduledEventResponse that have no default
ResponseRequired ==
    {"topic", "entity_type", "action", "scheduled_at", "event_id", "correlation_id",
     "status", "created_at", "retry_count"}

\* keyword arguments create() gives the RedisScheduledEventResponse constructor:
\* model_dump() of RedisScheduledEventCreate, and created_at
CreatePasses ==
    {"topic", "entity_type", "action", "entity_id", "actor_type", "actor_id", "payload",
     "headers", "scheduled_at", "priority", "source", "source_id",
     "clickhouse_schedule_id", "max_retries", "correlation_id", "created_at"}

\* the constructor validates: every required field must be passed
construct_ok == ResponseRequired \subseteq CreatePasses

\* create() from the pipeline on: SETEX the value record, ZADD the index
create_pipeline(e, sched) ==
    /\ kv' = [kv EXCEPT ![e] = NewEvent(sched, now)]
    /\ index' = [index EXCEPT ![e] = sched]
    /\ stats' = [stats EXCEPT !.total_created = @ + 1]

\* a C row as CRUDClickhouseScheduledEvent.create stores it
NewRow(sched, src, src_id) ==
    [status |-> "pending", scheduled_at |-> sched, source |-> src, source_id |-> src_id,
     lock_until |-> NoLock]

\* HybridSchedulerService.schedule_event
schedule_event(sched) ==
    /\ IF sched - now <= TransferWindow
       THEN /\ nextId \in EventIds
            /\ IF ~create_ok(sched)
               THEN /\ api_error' = "ValueError"
                    /\ UNCHANGED <<kv, index, nextId, stats>>
               ELSE IF ~construct_ok
               THEN /\ api_error' = "ValidationError"
                    /\ UNCHANGED <<kv, index, nextId, stats>>
               ELSE /\ create_pipeline(nextId, sched)
                    /\ nextId' = nextId + 1
                    /\ api_error' = "none"
            /\ UNCHANGED <<ch, nextRow>>
       ELSE /\ nextRow \in RowIds
            /\ ch' = [ch EXCEPT ![nextRow] = NewRow(sched, "api_request", NoRef)]
            /\ nextRow' = nextRow + 1
            /\ api_error' = "none"
            /\ UNCHANGED <<kv, index, nextId, stats>>
    /\ UNCHANGED <<service, aux, cron, now, workers, monitor, bus, claims, removed, updates, promoter>>

\* an event enters K: the checks and the pipeline of create(), for an event
\* whose response object has been constructed
CreateEvent ==
    /\ nextId \in EventIds
    /\ \E d \in Delays :
          /\ create_ok(now + d)
          /\ create_pipeline(nextId, now + d)
    /\ nextId' = nextId + 1
    /\ UNCHANGED <<service, aux, cron, nextRow, promoter, now, ch, workers, monitor, bus, claims, removed, updates, api_error>>

\* the clock advances; Redis drops the value records whose TTL ran out
Tick ==
    /\ now < MaxTime
    /\ now' = now + 1
    /\ kv' = [e \in EventIds |->
                IF kv[e] # NoValue /\ kv[e].expires <= now + 1 THEN NoValue ELSE kv[e]]
    /\ UNCHANGED <<service, aux, cron, nextRow, promoter, index, ch, nextId, workers, monitor, history, updates, api_error>>

\* ---- Redis primitives ----

\* variant: highest score first
After(idx, a, b) == idx[a] > idx[b] \/ (idx[a] = idx[b] /\ a > b)

Before(idx, a, b) == idx[a] < idx[b] \/ (idx[a] = idx[b] /\ a < b)

RECURSIVE SortByScore(_, _)
SortByScore(idx, S) ==
    IF S = {} THEN <<>>
    ELSE LET m == CHOOSE x \in S : \A y \in S \ {x} : Before(idx, x, y)
         IN <<m>> \o SortByScore(idx, S \ {m})

\* ZRANGEBYSCORE index lo hi LIMIT 0 num
zrangebyscore(lo, hi, num) ==
    LET all == SortByScore(index, {e \in EventIds : index[e] # NoScore /\ lo <= index[e] /\ index[e] <= hi})
    IN SubSeq(all, 1, Min(num, Len(all)))

\* ---- CRUDRedisScheduledEvent ----

IsPending(e) == get(e).status = "pending"
Snapshot(e) == [event_id |-> e, scheduled_at |-> get(e).scheduled_at]

\* variant: the scan takes the whole index, not only scores <= now
get_ready_events_no_cutoff(limit) ==
    LET ids == SelectSeq(zrangebyscore(0, now + TransferWindow, limit), IsPending)
    IN [i \in 1..Len(ids) |-> Snapshot(ids[i])]

get_ready_events(limit) ==
    LET ids == SelectSeq(zrangebyscore(0, now, limit), IsPending)
    IN [i \in 1..Len(ids) |-> Snapshot(ids[i])]

\* variant: the claim does not look at the status it reads
claim_for_processing_any_status(e) ==
    /\ get(e) # NoValue
    /\ (get(e).scheduled_at - now) + TtlBuffer > 0

claim_for_processing(e) ==
    /\ get(e) # NoValue
    /\ get(e).status = "pending"
    /\ (get(e).scheduled_at - now) + TtlBuffer > 0

\* variant: the claim stamps the processor but leaves the status pending
claimed_value_still_pending(e, r) ==
    [get(e) EXCEPT !.processor_id = r, !.claimed_at = now,
                   !.expires = now + (get(e).scheduled_at - now) + TtlBuffer]

claimed_value(e, r) ==
    [get(e) EXCEPT !.status = "reserved", !.processor_id = r, !.claimed_at = now,
                   !.expires = now + (get(e).scheduled_at - now) + TtlBuffer]

LiveIn(k, e) == k[e] # NoValue /\ now < k[e].expires

mark_processed_kv(k, e, success) ==
    IF LiveIn(k, e)
    THEN [k EXCEPT ![e].status = IF success THEN "completed" ELSE "error",
                   ![e].expires = now + ProcessedTtl]
    ELSE k

\* HINCRBY stats total_<status> 1 in the pipeline of mark_processed
mark_processed_stats(st, k, e, success) ==
    IF LiveIn(k, e)
    THEN IF success THEN [st EXCEPT !.total_completed = @ + 1]
                    ELSE [st EXCEPT !.total_error = @ + 1]
    ELSE st

\* variant: the terminal transition forgets the ZREM
mark_processed_index_no_zrem(k, idx, e) == idx

mark_processed_index(k, idx, e) ==
    IF LiveIn(k, e) THEN [idx EXCEPT ![e] = NoScore] ELSE idx

\* ---- ThreeTierSchedulerService._redis_event_processor ----

\* top of the loop: start_time, get_ready_events(limit=100)
Scan(r) ==
    /\ service = "three_tier"
    /\ pc[r] = "idle"
    /\ get_ready_events(ReadyLimit) # <<>>
    /\ batch' = [batch EXCEPT ![r] = get_ready_events(ReadyLimit)]
    /\ tick_time' = [tick_time EXCEPT ![r] = now]
    /\ pc' = [pc EXCEPT ![r] = "loop"]
    /\ UNCHANGED <<service, aux, cron, nextRow, promoter, now, store, ch, nextId, monitor, history, updates, api_error>>

\* the for loop moves to the next event; after the last one the tick ends
\* and the loop sleeps
NextEvent(r) ==
    /\ batch' = [batch EXCEPT ![r] = Tail(@)]
    /\ pc' = [pc EXCEPT ![r] = IF Tail(batch[r]) = <<>> THEN "idle" ELSE "loop"]
    /\ tick_time' = [tick_time EXCEPT ![r] = IF Tail(batch[r]) = <<>> THEN 0 ELSE @]

\* _process_redis_event up to the publish: the claim
Claim(r) ==
    /\ service = "three_tier"
    /\ pc[r] = "loop"
    /\ LET e == Head(batch[r]).event_id
       IN IF claim_for_processing(e)
          THEN /\ kv' = [kv EXCEPT ![e] = claimed_value(e, r)]
               /\ claims' = [claims EXCEPT ![e] = @ + 1]
               /\ pc' = [pc EXCEPT ![r] = "publishing"]
               /\ UNCHANGED <<batch, tick_time>>
          ELSE /\ NextEvent(r)
               /\ UNCHANGED <<kv, claims>>
    /\ UNCHANGED <<service, aux, cron, nextRow, promoter, now, index, ch, nextId, monitor, bus, removed, stats, updates, api_error>>

\* await _publish_to_kafka returns
PublishOk(r) ==
    /\ pc[r] = "publishing"
    /\ bus' = [bus EXCEPT ![Head(batch[r]).event_id] = @ + 1]
    /\ pc' = [pc EXCEPT ![r] = "published"]
    /\ UNCHANGED <<service, aux, cron, nextRow, promoter, now, store, ch, nextId, batch, tick_time, monitor, claims, removed, stats, updates, api_error>>

\* mark_processed(success=True) after the publish
MarkProcessed(r) ==
    /\ pc[r] = "published"
    /\ LET e == Head(batch[r]).event_id
       IN /\ kv' = mark_processed_kv(kv, e, TRUE)
          /\ index' = mark_processed_index(kv, index, e)
          /\ stats' = mark_processed_stats(stats, kv, e, TRUE)
    /\ NextEvent(r)
    /\ UNCHANGED <<service, aux, cron, nextRow, promoter, now, ch, nextId, monitor, bus, claims, removed, updates, api_error>>

\* await _publish_to_kafka raises: mark_processed(success=False) in
\* _process_redis_event, re-raise, mark_processed(success=False) in the loop
PublishFail(r) ==
    /\ pc[r] = "publishing"
    /\ LET e == Head(batch[r]).event_id
           k1 == mark_processed_kv(kv, e, FALSE)
           i1 == mark_processed_index(kv, index, e)
       IN /\ kv' = mark_processed_kv(k1, e, FALSE)
          /\ index' = mark_processed_index(k1, i1, e)
          /\ stats' = mark_processed_stats(mark_processed_stats(stats, kv, e, FALSE),
                                           k1, e, FALSE)
    /\ NextEvent(r)
    /\ UNCHANGED <<service, aux, cron, nextRow, promoter, now, ch, nextId, monitor, bus, claims, removed, updates, api_error>>

\* the process dies, or stop() cancels the task, while the publish is awaited
Crash(r) ==
    /\ pc[r] = "publishing"
    /\ pc' = [pc EXCEPT ![r] = "idle"]
    /\ batch' = [batch EXCEPT ![r] = <<>>]
    /\ tick_time' = [tick_time EXCEPT ![r] = 0]
    /\ UNCHANGED <<service, aux, cron, nextRow, promoter, now, store, ch, nextId, monitor, history, updates, api_error>>

\* ---- HybridSchedulerService._redis_event_processor ----

HybridScan(h) ==
    /\ service = "hybrid"
    /\ pc[h] = "idle"
    /\ get_ready_events(ReadyLimit) # <<>>
    /\ batch' = [batch EXCEPT ![h] = get_ready_events(ReadyLimit)]
    /\ tick_time' = [tick_time EXCEPT ![h] = now]
    /\ pc' = [pc EXCEPT ![h] = "loop"]
    /\ UNCHANGED <<service, aux, cron, nextRow, promoter, now, store, ch, nextId, monitor, history, updates, api_error>>

\* _process_redis_event: no claim, no publish, mark_processed(success=True)
HybridProcess(h) ==
    /\ service = "hybrid"
    /\ pc[h] = "loop"
    /\ LET e == Head(batch[h]).event_id
       IN /\ kv' = mark_processed_kv(kv, e, TRUE)
          /\ index' = mark_processed_index(kv, index, e)
          /\ stats' = mark_processed_stats(stats, kv, e, TRUE)
    /\ NextEvent(h)
    /\ UNCHANGED <<service, aux, cron, nextRow, promoter, now, ch, nextId, monitor, bus, claims, removed, updates, api_error>>

\* ---- ThreeTierSchedulerService._health_monitor: cleanup_expired ----

\* ids the cleanup queues on its pipeline: more than the grace period past
\* their score, and value missing or still pending
cleanup_expired ==
    LET ids == zrangebyscore(0, now - GracePeriod, MaxEvents)
    IN {e \in EventIds : (\E i \in 1..Len(ids) : ids[i] = e)
                         /\ (get(e) = NoValue \/ get(e).status = "pending")}

CleanupScan ==
    /\ service = "three_tier"
    /\ hm_pc = "idle"
    /\ hm_del' = cleanup_expired
    /\ hm_start' = now
    /\ hm_pc' = "exec"
    /\ UNCHANGED <<service, aux, cron, nextRow, promoter, now, store, ch, nextId, workers, history, updates, api_error>>

\* pipe.execute(): DEL key, ZREM index id for every queued id
CleanupExec ==
    /\ hm_pc = "exec"
    /\ kv' = [e \in EventIds |-> IF e \in hm_del THEN NoValue ELSE kv[e]]
    /\ index' = [e \in EventIds |-> IF e \in hm_del THEN NoScore ELSE index[e]]
    /\ hm_pc' = "idle"
    /\ hm_del' = {}
    /\ hm_start' = 0
    /\ UNCHANGED <<service, aux, cron, nextRow, promoter, now, ch, nextId, workers, history, updates, api_error>>

\* ---- admin surface: PUT and DELETE /admin/redis-events/{event_id} ----

Unset == "unset"

\* CRUDRedisScheduledEvent.update with status and/or scheduled_at set
update(e, st, sched) ==
    /\ updates < MaxUpdates
    /\ get(e) # NoValue
    /\ st # Unset \/ sched # NoScore
    /\ sched # NoScore => (sched > now /\ sched <= now + TransferWindow)
    /\ LET ev == get(e)
           s2 == IF sched # NoScore THEN sched ELSE ev.scheduled_at
           ttl == (s2 - now) + TtlBuffer
       IN /\ ttl > 0
          /\ kv' = [kv EXCEPT ![e] = [ev EXCEPT !.status = IF st # Unset THEN st ELSE @,
                                                !.scheduled_at = s2,
                                                !.expires = now + ttl]]
          /\ index' = IF sched # NoScore THEN [index EXCEPT ![e] = s2] ELSE index
    /\ updates' = updates + 1
    /\ UNCHANGED <<service, aux, cron, nextRow, promoter, now, ch, nextId, workers, monitor, history, api_error>>

Update == \E e \in EventIds, st \in {Unset, "pending"}, sched \in {NoScore, now + 1} :
            update(e, st, sched)

\* CRUDRedisScheduledEvent.delete
delete(e) ==
    /\ kv[e] # NoValue \/ index[e] # NoScore
    /\ kv' = [kv EXCEPT ![e] = NoValue]
    /\ index' = [index EXCEPT ![e] = NoScore]
    /\ removed' = IF get(e) # NoValue THEN removed \cup {e} ELSE removed
    /\ UNCHANGED <<service, aux, cron, nextRow, promoter, now, ch, nextId, workers, monitor, bus, claims, stats, updates, api_error>>

Delete == \E e \in EventIds : delete(e)

\* ---- C tier: CRUDClickhouseScheduledEvent ----

IntakeDelays == {0, 1, TransferWindow + 2}

\* handle_delayed_events: a delayed message becomes a pending C row scheduled
\* at its delivery_time, whatever that time is
Intake ==
    /\ nextRow \in RowIds
    /\ \E d \in IntakeDelays :
          ch' = [ch EXCEPT ![nextRow] = NewRow(now + d, "kafka_delayed", NoRef)]
    /\ nextRow' = nextRow + 1
    /\ UNCHANGED <<service, aux, cron, now, store, nextId, workers, monitor, history, updates,
                   api_error, promoter>>

\* SELECT ... WHERE status = 'pending' AND scheduled_at <= cutoff
\* ORDER BY scheduled_at ASC LIMIT limit
get_ready_for_transfer(cutoff, limit) ==
    LET S == {c \in RowIds : ch[c].status = "pending" /\ ch[c].scheduled_at <= cutoff}
        all == SortByScore([c \in S |-> ch[c].scheduled_at], S)
        ids == SubSeq(all, 1, Min(limit, Len(all)))
    IN [i \in 1..Len(ids) |->
          [schedule_id |-> ids[i], scheduled_at |-> ch[ids[i]].scheduled_at]]

\* variant: the UPDATE has no status condition
mark_transferred_any_status(rows, c) ==
    IF rows[c] # NoRow
    THEN [rows EXCEPT ![c].status = "transferred_to_redis"]
    ELSE rows

\* ALTER TABLE ... UPDATE status = 'transferred_to_redis' WHERE id = c AND status = 'pending'
mark_transferred(rows, c) ==
    IF rows[c].status = "pending"
    THEN [rows EXCEPT ![c].status = "transferred_to_redis"]
    ELSE rows

CStatuses ==
    {"pending", "processing", "completed", "error", "skipped", "transferred_to_redis"}

\* update_status: ALTER TABLE ... UPDATE status = st WHERE schedule_id = c
update_status(rows, c, st) ==
    IF rows[c] # NoRow THEN [rows EXCEPT ![c].status = st] ELSE rows

\* acquire_lock: ... WHERE schedule_id = c AND (status = 'pending' OR
\* (status = 'processing' AND lock_until < now))
acquire_lock(rows, c) ==
    IF rows[c].status = "pending"
       \/ (rows[c].status = "processing" /\ rows[c].lock_until < now)
    THEN [rows EXCEPT ![c].status = "processing", ![c].lock_until = now + LockDuration]
    ELSE rows

\* bulk_mark_transferred: ... WHERE id IN ids AND status = 'pending'
bulk_mark_transferred(rows, ids) ==
    [c \in RowIds |-> IF c \in ids THEN mark_transferred(rows, c)[c] ELSE rows[c]]

\* CRUDClickhouseScheduledEvent.update with status in the update: the row is
\* read first, then ALTER TABLE ... UPDATE status = st WHERE id = c
c_update(rows, c, st) ==
    IF rows[c] # NoRow THEN [rows EXCEPT ![c].status = st] ELSE rows

\* one call of a C store operation; the calls that change nothing are left out
CStoreOp(rows2) ==
    /\ rows2 # ch
    /\ ch' = rows2
    /\ UNCHANGED <<service, aux, cron, now, store, nextId, nextRow, workers, monitor, history,
                   updates, api_error, promoter>>

CUpdateStatus == \E c \in RowIds, st \in CStatuses : CStoreOp(update_status(ch, c, st))

CAcquireLock == \E c \in RowIds : CStoreOp(acquire_lock(ch, c))

CMarkTransferred == \E c \in RowIds : CStoreOp(mark_transferred(ch, c))

CBulkMarkTransferred == \E ids \in SUBSET RowIds : CStoreOp(bulk_mark_transferred(ch, ids))

CUpdate == \E c \in RowIds, st \in CStatuses : CStoreOp(c_update(ch, c, st))

\* ---- Promoter: _clickhouse_to_redis_transfer and _transfer_to_redis ----

\* the K record _transfer_to_redis creates for a C row
PromotedEvent(c, sched, t) ==
    [NewEvent(sched, t) EXCEPT !.clickhouse_schedule_id = c]

\* variant: the K write is dropped but the transfer goes on
transfer_create_no_write(row) ==
    /\ nextId \in EventIds
    /\ UNCHANGED <<kv, index, nextId, copies, stats>>

\* redis_crud.create(redis_event_data) inside _transfer_to_redis, for an event
\* whose response object has been constructed
transfer_create(row) ==
    /\ nextId \in EventIds
    /\ kv' = [kv EXCEPT ![nextId] = PromotedEvent(row.schedule_id, row.scheduled_at, now)]
    /\ index' = [index EXCEPT ![nextId] = row.scheduled_at]
    /\ nextId' = nextId + 1
    /\ copies' = [copies EXCEPT ![row.schedule_id] = @ + 1]
    /\ stats' = [stats EXCEPT !.total_created = @ + 1]

\* top of the loop: start_time, transfer_cutoff, get_ready_for_transfer
PromoterScan ==
    /\ tr_pc = "idle"
    /\ get_ready_for_transfer(now + TransferWindow, ReadyLimit) # <<>>
    /\ tr_batch' = get_ready_for_transfer(now + TransferWindow, ReadyLimit)
    /\ tr_time' = now
    /\ tr_pc' = "loop"
    /\ UNCHANGED <<service, aux, cron, now, store, ch, nextId, nextRow, workers, monitor, history,
                   updates, api_error, man_pc, man_row, copies>>

\* the for loop moves to the next row; after the last one the loop sleeps
TransferNext ==
    /\ tr_batch' = Tail(tr_batch)
    /\ tr_pc' = IF Tail(tr_batch) = <<>> THEN "idle" ELSE "loop"
    /\ tr_time' = IF Tail(tr_batch) = <<>> THEN 0 ELSE tr_time

\* _transfer_to_redis up to the await: create() writes the K copy, or raises
\* ValueError and the loop logs it and goes on
TransferCreate ==
    /\ tr_pc = "loop"
    /\ IF create_ok(Head(tr_batch).scheduled_at)
       THEN /\ transfer_create(Head(tr_batch))
            /\ tr_pc' = "marking"
            /\ UNCHANGED <<tr_batch, tr_time>>
       ELSE /\ TransferNext
            /\ UNCHANGED <<store, nextId, copies, stats>>
    /\ UNCHANGED <<service, aux, cron, now, ch, nextRow, workers, monitor, bus, claims,
                   removed, updates, api_error, man_pc, man_row>>

\* await mark_transferred returns
TransferMark ==
    /\ tr_pc = "marking"
    /\ ch' = mark_transferred(ch, Head(tr_batch).schedule_id)
    /\ TransferNext
    /\ UNCHANGED <<service, aux, cron, now, store, nextId, nextRow, workers, monitor, history,
                   updates, api_error, man_pc, man_row, copies>>

\* await mark_transferred raises (the C store rejects or loses the write);
\* the loop logs it and goes on
TransferMarkFail ==
    /\ tr_pc = "marking"
    /\ TransferNext
    /\ UNCHANGED <<service, aux, cron, now, store, ch, nextId, nextRow, workers, monitor, history,
                   updates, api_error, man_pc, man_row, copies>>

\* ---- trigger_manual_transfer ----

\* clickhouse_crud.get(event_id), status check
ManualRead ==
    /\ man_pc = "idle"
    /\ \E c \in RowIds :
          /\ ch[c].status = "pending"
          /\ man_row' = [schedule_id |-> c, scheduled_at |-> ch[c].scheduled_at]
    /\ man_pc' = "create"
    /\ UNCHANGED <<service, aux, cron, now, store, ch, nextId, nextRow, workers, monitor, history,
                   updates, api_error, tr_pc, tr_batch, tr_time, copies>>

ManualCreate ==
    /\ man_pc = "create"
    /\ IF create_ok(man_row.scheduled_at)
       THEN /\ transfer_create(man_row)
            /\ man_pc' = "marking"
            /\ UNCHANGED man_row
       ELSE /\ man_pc' = "idle"
            /\ man_row' = NoRef
            /\ UNCHANGED <<store, nextId, copies, stats>>
    /\ UNCHANGED <<service, aux, cron, now, ch, nextRow, workers, monitor, bus, claims,
                   removed, updates, api_error, tr_pc, tr_batch, tr_time>>

ManualMark ==
    /\ man_pc = "marking"
    /\ ch' = mark_transferred(ch, man_row.schedule_id)
    /\ man_pc' = "idle"
    /\ man_row' = NoRef
    /\ UNCHANGED <<service, aux, cron, now, store, nextId, nextRow, workers, monitor, history,
                   updates, api_error, tr_pc, tr_batch, tr_time, copies>>

ManualMarkFail ==
    /\ man_pc = "marking"
    /\ man_pc' = "idle"
    /\ man_row' = NoRef
    /\ UNCHANGED <<service, aux, cron, now, store, ch, nextId, nextRow, workers, monitor, history,
                   updates, api_error, tr_pc, tr_batch, tr_time, copies>>

\* ---- D tier: schedule definitions and the schedule processor ----

\* cron expressions of the definitions: "*/5 * * * *" and "*/10 * * * *",
\* written as the number of time units between two firings
CronPeriods == {1, 2}

\* a cron_expression croniter cannot parse (the admin router stores the
\* string it is given)
InvalidCron == 0

\* croniter(expr, t).get_next(): the first firing strictly after t
\* variant: the firing at or before t
get_next_inclusive(expr, t) == t - (t % expr)

\* variant: the firing one period after the first one that follows t
get_next_skipping(expr, t) == t + 2 * expr - (t % expr)

get_next(expr, t) == t + expr - (t % expr)

\* find({status: active, next_execution: {$ne: None, $lte: before}})
get_schedules_due_for_execution(before) ==
    {d \in DefIds : /\ defs[d].status = "active"
                    /\ defs[d].next_execution # NoTime
                    /\ defs[d].next_execution <= before}

\* the orders in which the cursor may return the documents of S
Orders(S) ==
    {s \in [1..Cardinality(S) -> S] :
        \A i, j \in 1..Cardinality(S) : s[i] = s[j] => i = j}

\* the next_execution _process_mongo_schedule computes: ThreeTierSchedulerService
\* asks croniter for the firing after the cycle's start_time,
\* HybridSchedulerService takes the current time + 24 h
next_execution_of(schedule) ==
    IF service = "three_tier"
    THEN get_next(schedule.cron_expression, cg_time)
    ELSE now + Day

\* the source of the C row: ThreeTierSchedulerService passes MONGO_SCHEDULE,
\* HybridSchedulerService leaves the schema's default
source_of_schedule_row == IF service = "three_tier" THEN "mongo_schedule" ELSE "api_request"

\* MongoScheduleExecution as record_execution creates it
ExecutionRecord(d, t, c) ==
    [schedule_id |-> d, execution_time |-> t, clickhouse_schedule_id |-> c]

\* record_execution: the schedule statistics after a successful execution
record_execution(ds, d, t) ==
    [ds EXCEPT ![d].last_execution = t,
               ![d].execution_count = @ + 1,
               ![d].last_status = "success"]

\* update_next_execution
update_next_execution(ds, d, t) == [ds EXCEPT ![d].next_execution = t]

\* variant: the handler counts the failure on the definition
process_failed_counting(ds, d) == [ds EXCEPT ![d].execution_count = @ + 1]

\* the except branch of the processor's loop: the error is logged and an
\* analytics row is written, D is not touched
process_failed(ds, d) == ds

\* the loop goes on with the next due schedule, or sleeps
CronAdvanceLoop ==
    /\ cg_batch' = Tail(cg_batch)
    /\ cg_pc' = IF Tail(cg_batch) = <<>> THEN "idle" ELSE "process"
    /\ cg_next' = NoTime
    /\ cg_row' = NoRef
    /\ cg_made' = IF Tail(cg_batch) = <<>> THEN [d \in DefIds |-> 0] ELSE cg_made

\* _mongo_schedule_processor: a cycle starts and reads the due schedules
CronScan ==
    /\ cg_pc = "idle"
    /\ get_schedules_due_for_execution(now) # {}
    /\ cg_time' = now
    /\ \E s \in Orders(get_schedules_due_for_execution(now)) :
          cg_batch' = [i \in 1..Len(s) |->
                         [id |-> s[i], cron_expression |-> defs[s[i]].cron_expression,
                          next_execution |-> defs[s[i]].next_execution]]
    /\ cg_pc' = "process"
    /\ UNCHANGED <<service, aux, now, store, ch, nextId, nextRow, workers, monitor, history,
                   updates, api_error, promoter, defs, execs, cg_next, cg_row, cg_made>>

\* _process_mongo_schedule up to clickhouse_crud.create: the C row is inserted
CronCreate ==
    /\ cg_pc = "process"
    /\ nextRow \in RowIds
    /\ service = "three_tier" => Head(cg_batch).cron_expression # InvalidCron
    /\ LET schedule == Head(cg_batch)
           next_execution == next_execution_of(schedule)
       IN /\ ch' = [ch EXCEPT ![nextRow] =
                       NewRow(next_execution, source_of_schedule_row, schedule.id)]
          /\ cg_next' = next_execution
          /\ cg_made' = [cg_made EXCEPT ![schedule.id] = @ + 1]
    /\ cg_row' = nextRow
    /\ nextRow' = nextRow + 1
    /\ cg_pc' = "record"
    /\ UNCHANGED <<service, aux, now, store, nextId, workers, monitor, history, updates,
                   api_error, promoter, defs, execs, cg_batch, cg_time>>

\* croniter, the construction of the row or clickhouse_crud.create raises
CronCreateFail ==
    /\ cg_pc = "process"
    /\ defs' = process_failed(defs, Head(cg_batch).id)
    /\ CronAdvanceLoop
    /\ UNCHANGED <<service, aux, now, store, ch, nextId, nextRow, workers, monitor, history,
                   updates, api_error, promoter, execs, cg_time>>

\* mongo_crud.record_execution: the execution document, then the statistics
CronRecord ==
    /\ cg_pc = "record"
    /\ LET d == Head(cg_batch).id
       IN /\ execs' = execs \cup {ExecutionRecord(d, cg_next, cg_row)}
          /\ defs' = record_execution(defs, d, cg_next)
    /\ cg_pc' = "advance"
    /\ UNCHANGED <<service, aux, now, store, ch, nextId, nextRow, workers, monitor, history,
                   updates, api_error, promoter, cg_batch, cg_time, cg_next, cg_row,
                   cg_made>>

\* mongo_crud.record_execution raises, before or after the execution document
\* is stored
CronRecordFail ==
    /\ cg_pc = "record"
    /\ \E stored \in BOOLEAN :
          execs' = IF stored
                   THEN execs \cup {ExecutionRecord(Head(cg_batch).id, cg_next, cg_row)}
                   ELSE execs
    /\ defs' = process_failed(defs, Head(cg_batch).id)
    /\ CronAdvanceLoop
    /\ UNCHANGED <<service, aux, now, store, ch, nextId, nextRow, workers, monitor, history,
                   updates, api_error, promoter, cg_time>>

\* mongo_crud.update_next_execution
CronAdvance ==
    /\ cg_pc = "advance"
    /\ defs' = update_next_execution(defs, Head(cg_batch).id, cg_next)
    /\ CronAdvanceLoop
    /\ UNCHANGED <<service, aux, now, store, ch, nextId, nextRow, workers, monitor, history,
                   updates, api_error, promoter, execs, cg_time>>

\* mongo_crud.update_next_execution raises
CronAdvanceFail ==
    /\ cg_pc = "advance"
    /\ defs' = process_failed(defs, Head(cg_batch).id)
    /\ CronAdvanceLoop
    /\ UNCHANGED <<service, aux, now, store, ch, nextId, nextRow, workers, monitor, history,
                   updates, api_error, promoter, execs, cg_time>>

\* ---- a second replica of _mongo_schedule_processor ----

\* the replica's cycle starts and reads the due schedules
PeerScan ==
    /\ peer.pc = "idle"
    /\ get_schedules_due_for_execution(now) # {}
    /\ \E s \in Orders(get_schedules_due_for_execution(now)) :
          peer' = [pc |-> "process", time |-> now,
                   batch |-> [i \in 1..Len(s) |->
                               [id |-> s[i],
                                cron_expression |-> defs[s[i]].cron_expression,
                                next_execution |-> defs[s[i]].next_execution]]]
    /\ UNCHANGED <<service, sdef, retry, flow, cb, now, store, ch, nextId, nextRow, workers, monitor,
                   history, updates, api_error, promoter, cron>>

\* the replica's _process_mongo_schedule for the next schedule of its batch:
\* the C row, record_execution and update_next_execution
PeerProcess ==
    /\ peer.pc = "process"
    /\ nextRow \in RowIds
    /\ LET schedule == Head(peer.batch)
           next_execution == IF service = "three_tier"
                             THEN get_next(schedule.cron_expression, peer.time)
                             ELSE now + Day
       IN /\ service = "three_tier" => schedule.cron_expression # InvalidCron
          /\ ch' = [ch EXCEPT ![nextRow] =
                       NewRow(next_execution, source_of_schedule_row, schedule.id)]
          /\ execs' = execs \cup {ExecutionRecord(schedule.id, next_execution, nextRow)}
          /\ defs' = update_next_execution(
                         record_execution(defs, schedule.id, next_execution),
                         schedule.id, next_execution)
    /\ nextRow' = nextRow + 1
    /\ peer' = [peer EXCEPT !.batch = Tail(peer.batch),
                            !.pc = IF Tail(peer.batch) = <<>> THEN "idle" ELSE "process"]
    /\ UNCHANGED <<service, sdef, retry, flow, cb, now, store, nextId, workers, monitor, history,
                   updates, api_error, promoter, cg_pc, cg_batch, cg_time, cg_next,
                   cg_row, cg_made>>

\* ---- error_handler.CircuitBreaker (times in seconds) ----

FailureThreshold == 5
RecoveryTimeout == 60
SecondsPerDay == 86400

\* the clock is read at most MaxWait seconds into a day and for at most
\* MaxDays days; a call that would take failure_count past MaxFailures is
\* not taken
MaxWait == 120
MaxDays == 1
MaxFailures == 7

\* _should_attempt_reset: timedelta.seconds is the seconds component of the
\* difference, the days are a component of their own
should_attempt_reset(b) ==
    IF b.last_failure_time = NoTime
    THEN TRUE
    ELSE (b.clock - b.last_failure_time) % SecondsPerDay >= RecoveryTimeout

\* _on_success
on_success(b) == [b EXCEPT !.failure_count = 0, !.state = "closed"]

\* variant: the breaker opens one failure late
on_failure_late(b) ==
    [b EXCEPT !.failure_count = @ + 1,
              !.last_failure_time = b.clock,
              !.state = IF b.failure_count + 1 > FailureThreshold THEN "open" ELSE @]

\* _on_failure
on_failure(b) ==
    [b EXCEPT !.failure_count = @ + 1,
              !.last_failure_time = b.clock,
              !.state = IF b.failure_count + 1 >= FailureThreshold THEN "open" ELSE @]

\* call(func) on breaker b: fails fast, or runs func, which returns, raises
\* an Exception or is cancelled (CancelledError is not an Exception and
\* passes through)
breaker_call(b, outcome) ==
    IF b.state = "open" /\ ~should_attempt_reset(b)
    THEN [b EXCEPT !.last_call = "rejected"]
    ELSE LET h == IF b.state = "open" THEN [b EXCEPT !.state = "half_open"] ELSE b
         IN CASE outcome = "success" -> [on_success(h) EXCEPT !.last_call = "success"]
              [] outcome = "failure" -> [on_failure(h) EXCEPT !.last_call = "failure"]
              [] OTHER -> [h EXCEPT !.last_call = "cancelled"]

BreakerCall ==
    /\ \E outcome \in {"success", "failure", "cancelled"} :
          /\ cb' = breaker_call(cb, outcome)
          /\ cb'.last_call = "failure" => cb.failure_count < MaxFailures
    /\ UNCHANGED <<service, sdef, retry, flow, peer, now, store, ch, nextId, nextRow, workers, monitor,
                   history, updates, api_error, promoter, cron>>

\* ErrorHandler.reset_circuit_breaker for the service of this breaker
BreakerReset ==
    /\ cb' = [cb EXCEPT !.state = "closed", !.failure_count = 0,
                        !.last_failure_time = NoTime, !.last_call = "none"]
    /\ UNCHANGED <<service, sdef, retry, flow, peer, now, store, ch, nextId, nextRow, workers,
                   monitor, history, updates, api_error, promoter, cron>>

\* time passes between two calls: half a minute, or a day
BreakerWait ==
    /\ \E dt \in {30, SecondsPerDay} :
          /\ (cb.clock + dt) % SecondsPerDay <= MaxWait
          /\ cb.clock + dt <= MaxDays * SecondsPerDay + MaxWait
          /\ cb' = [cb EXCEPT !.clock = @ + dt, !.last_call = "none"]
    /\ UNCHANGED <<service, sdef, retry, flow, peer, now, store, ch, nextId, nextRow, workers, monitor,
                   history, updates, api_error, promoter, cron>>

\* ---- error_handler: RetryConfig, ErrorClassifier, ErrorHandler ----

\* an error message is written as the set of the keywords it contains
\* classify_error: the first pattern of the chain that matches
classify_error(msg) ==
    CASE "kafka" \in msg ->
             IF "connection" \in msg \/ "broker" \in msg
             THEN "kafka_connection_error" ELSE "kafka_publish_error"
      [] "kafka" \notin msg /\ ("redis" \in msg \/ "connection pool" \in msg) ->
             "redis_connection_error"
      [] msg \cap {"kafka", "redis", "connection pool"} = {}
         /\ ("clickhouse" \in msg \/ "database" \in msg) -> "clickhouse_connection_error"
      [] msg \cap {"kafka", "redis", "connection pool", "clickhouse", "database"} = {}
         /\ "timeout" \in msg -> "timeout_error"
      [] msg \cap {"kafka", "redis", "connection pool", "clickhouse", "database",
                   "timeout"} = {}
         /\ ("json" \in msg \/ "serializ" \in msg) -> "serialization_error"
      [] msg \cap {"kafka", "redis", "connection pool", "clickhouse", "database",
                   "timeout", "json", "serializ"} = {}
         /\ ("validation" \in msg \/ "invalid" \in msg) -> "validation_error"
      [] msg \cap {"kafka", "redis", "connection pool", "clickhouse", "database",
                   "timeout", "json", "serializ", "validation", "invalid"} = {}
         /\ "circuit breaker" \in msg -> "circuit_breaker_open"
      [] OTHER -> "unknown_error"

\* RetryConfig(...) with the defaults of __init__ for what is not passed
RetryConfig(attempts, strat, base, max) ==
    [max_attempts |-> attempts, strategy |-> strat, base_delay |-> base,
     max_delay |-> max, multiplier |-> 2, jitter |-> TRUE]

ERROR_STRATEGIES ==
    [t \in {"kafka_connection_error", "kafka_publish_error", "redis_connection_error",
            "clickhouse_connection_error", "serialization_error", "timeout_error",
            "validation_error", "circuit_breaker_open", "unknown_error"} |->
        CASE t = "kafka_connection_error" -> RetryConfig(5, "exponential_backoff", 30, 600)
          [] t = "kafka_publish_error" -> RetryConfig(3, "exponential_backoff", 10, 300)
          [] t = "redis_connection_error" -> RetryConfig(3, "exponential_backoff", 5, 60)
          [] t = "clickhouse_connection_error" ->
                 RetryConfig(3, "exponential_backoff", 10, 120)
          [] t = "serialization_error" -> RetryConfig(1, "immediate", 60, 3600)
          [] t = "timeout_error" -> RetryConfig(2, "linear_backoff", 60, 3600)
          [] t = "validation_error" -> RetryConfig(1, "immediate", 60, 3600)
          [] t = "circuit_breaker_open" -> RetryConfig(1, "immediate", 60, 3600)
          [] OTHER -> RetryConfig(2, "exponential_backoff", 60, 3600)]

\* the positions of random.randint in its range 0..int(delay * 0.1) that are
\* drawn: lowest, middle, highest
Draws == {0, 1, 2}

\* RetryConfig.calculate_delay, u the position of the random draw
calculate_delay(cfg, attempt, u) ==
    IF cfg.strategy = "immediate"
    THEN 0
    ELSE LET raw == CASE cfg.strategy = "fixed_interval" -> cfg.base_delay
                      [] cfg.strategy = "linear_backoff" -> cfg.base_delay * attempt
                      [] cfg.strategy = "exponential_backoff" ->
                             cfg.base_delay * (cfg.multiplier ^ (attempt - 1))
                      [] OTHER -> cfg.base_delay
             delay == IF raw < cfg.max_delay THEN raw ELSE cfg.max_delay
         IN IF cfg.jitter THEN delay + (u * (delay \div 10)) \div 2 ELSE delay

\* the attempt numbers calculate_delay is asked for
MaxAttempt == 7

\* calculate_delay is called on a policy of ERROR_STRATEGIES or on a
\* fixed-interval configuration, with jitter on or off
CalculateDelay ==
    /\ \E cfg \in {ERROR_STRATEGIES[t] : t \in DOMAIN ERROR_STRATEGIES}
                  \cup {RetryConfig(3, "fixed_interval", 60, 3600)},
          j \in BOOLEAN, attempt \in 1..MaxAttempt, u \in Draws :
          retry' = [pc |-> "delay", config |-> [cfg EXCEPT !.jitter = j],
                    attempt |-> attempt,
                    delay |-> calculate_delay([cfg EXCEPT !.jitter = j], attempt, u)]
    /\ UNCHANGED <<service, sdef, flow, cb, peer, now, store, ch, nextId, nextRow, workers,
                   monitor, history, updates, api_error, promoter, cron>>

\* the attempts of the loop in execute_with_retry when no custom_retry_config
\* is given
LoopAttempts == 3

\* execute_with_retry(func) is called; func raises an error with the message
\* func_error whenever it fails
RetryStart ==
    /\ retry.pc # "attempt"
    /\ cb.clock % SecondsPerDay <= MaxWait
    /\ \E msg \in {{"kafka", "connection"}, {"kafka"}, {"redis"}, {"clickhouse"},
                   {"timeout"}, {"timeout", "kafka"}, {"json"}, {"validation"}, {}} :
          retry' = [pc |-> "attempt", attempt |-> 1, func_error |-> msg, invoked |-> 0,
                    rejected |-> 0, last_error |-> {}]
    /\ UNCHANGED <<service, sdef, flow, cb, peer, now, store, ch, nextId, nextRow, workers,
                   monitor, history, updates, api_error, promoter, cron>>

\* one pass of the loop: circuit_breaker.call(func), and in the except branch
\* the classification, the test for the last attempt and the sleep
RetryAttempt ==
    /\ retry.pc = "attempt"
    /\ \E outcome \in {"success", "failure"}, u \in Draws :
          LET b == breaker_call(cb, outcome)
              error == IF b.last_call = "rejected"
                       THEN {"circuit breaker"} ELSE retry.func_error
              retry_config == ERROR_STRATEGIES[classify_error(error)]
              counted == [retry EXCEPT
                             !.invoked = IF b.last_call = "rejected" THEN @ ELSE @ + 1,
                             !.rejected = IF b.last_call = "rejected" THEN @ + 1 ELSE @]
          IN /\ b.last_call = "failure" => cb.failure_count < MaxFailures
             /\ IF b.last_call = "success"
                THEN /\ retry' = [counted EXCEPT !.pc = "returned"]
                     /\ cb' = b
                     /\ u = 0
                ELSE IF retry.attempt >= retry_config.max_attempts
                THEN /\ retry' = [counted EXCEPT !.pc = "raised", !.last_error = error]
                     /\ cb' = b
                     /\ u = 0
                ELSE /\ retry' = [counted EXCEPT
                                     !.last_error = error,
                                     !.attempt = IF @ = LoopAttempts THEN @ ELSE @ + 1,
                                     !.pc = IF retry.attempt = LoopAttempts
                                            THEN "raised" ELSE "attempt"]
                     /\ cb' = [b EXCEPT
                                  !.clock = @ + calculate_delay(retry_config,
                                                                retry.attempt, u)]
    /\ UNCHANGED <<service, sdef, flow, peer, now, store, ch, nextId, nextRow, workers,
                   monitor, history, updates, api_error, promoter, cron>>

\* ---- CRUDScheduledEventDefinition: definitions synced from classes ----

\* the number of executions update_execution_info records
MaxExecutions == 2

\* Python values are written as strings: "None", "" and "{}" (the empty dict)
\* are the ones `not value` is true for
\* upsert_from_class for a class with the given cron_expression and payload
UpsertFromClass ==
    /\ \E cron_expression \in {"c1", "c2"}, payload \in {"{}", "p1"} :
          IF sdef # NoDef
          THEN sdef' = [sdef EXCEPT
                  !.last_sync_at = "synced",
                  !.cron_expression =
                      IF sdef.manual_cron_override \in {"None", ""}
                      THEN cron_expression ELSE @,
                  !.payload =
                      IF sdef.manual_payload_override \in {"None", "{}"}
                      THEN payload ELSE @,
                  !.status =
                      IF sdef.manual_status_override = "None" THEN "active" ELSE @]
          ELSE sdef' = [cron_expression |-> cron_expression, payload |-> payload,
                        status |-> "active", last_sync_at |-> "synced",
                        manual_cron_override |-> "None",
                        manual_payload_override |-> "None",
                        manual_status_override |-> "None",
                        last_execution_at |-> NoTime, next_execution_at |-> NoTime,
                        execution_count |-> 0, error_count |-> 0, last_error |-> "None"]
    /\ UNCHANGED <<service, flow, cb, peer, retry, now, store, ch, nextId, nextRow,
                   workers, monitor, history, updates, api_error, promoter, cron>>

\* update_execution_info
UpdateExecutionInfo ==
    /\ sdef # NoDef
    /\ sdef.execution_count < MaxExecutions
    /\ \E success \in BOOLEAN, next_execution_at \in {NoTime, now + 1} :
          sdef' = [sdef EXCEPT
                      !.last_execution_at = now,
                      !.execution_count = @ + 1,
                      !.next_execution_at =
                          IF next_execution_at # NoTime THEN next_execution_at ELSE @,
                      !.error_count = IF success THEN @ ELSE @ + 1,
                      !.last_error = IF success THEN "None" ELSE "error"]
    /\ UNCHANGED <<service, flow, cb, peer, retry, now, store, ch, nextId, nextRow,
                   workers, monitor, history, updates, api_error, promoter, cron>>

\* ---- D tier: the admin router of the schedule definitions ----

Names == {"a", "b"}

\* variant: the lookup finds nothing
get_by_name_none(n) == {}

\* CRUDMongoSchedule.get_by_name: the definitions find_one chooses from
get_by_name(n) == {d \in DefIds : defs[d] # NoDef /\ defs[d].name = n}

\* the document crud_mongo_schedule.create stores for a MongoScheduleCreate:
\* the request's fields and the defaults of MongoSchedule
NewSchedule(n, expr) ==
    [name |-> n, status |-> "active", cron_expression |-> expr,
     next_execution |-> NoTime, last_execution |-> NoTime,
     execution_count |-> 0, last_status |-> "none", last_error |-> "none"]

\* POST /admin/schedules
create_schedule(n, expr) ==
    IF get_by_name(n) # {}
    THEN /\ api_error' = "already exists"
         /\ UNCHANGED defs
    ELSE /\ \E d \in DefIds :
               /\ defs[d] = NoDef
               /\ \A d2 \in DefIds : defs[d2] = NoDef => d <= d2
               /\ defs' = [defs EXCEPT ![d] = NewSchedule(n, expr)]
         /\ api_error' = "none"

CreateSchedule ==
    /\ \E n \in Names, expr \in CronPeriods \cup {InvalidCron} : create_schedule(n, expr)
    /\ UNCHANGED <<service, aux, now, store, ch, nextId, nextRow, workers, monitor, history,
                   updates, promoter, execs, cg_pc, cg_batch, cg_time, cg_next, cg_row,
                   cg_made>>

\* POST /admin/schedules/{id}/activate and /deactivate: update_status
SetScheduleStatus ==
    /\ \E d \in DefIds, st \in {"active", "paused"} :
          /\ defs[d] # NoDef
          /\ defs[d].status # st
          /\ defs' = [defs EXCEPT ![d].status = st]
    /\ api_error' = "none"
    /\ UNCHANGED <<service, aux, now, store, ch, nextId, nextRow, workers, monitor, history,
                   updates, promoter, execs, cg_pc, cg_batch, cg_time, cg_next, cg_row,
                   cg_made>>

\* ---- the fields of one event on its way through the tiers ----

\* payloads are written [kind, value]: the caller's payload has kind "given"
\* what a caller hands over: the path it enters by, topic, payload,
\* correlation id ("none": not given) and max_delay_seconds (in time units)
Requests ==
    [path : {"api_k", "api_c", "intake", "cron"}, topic : {"orders", "users"},
     payload : [kind : {"given"}, value : {"p1", "p2"}], correlation_id : {"c1", "none"},
     max_delay_seconds : {1, Day}]

\* the correlation id of the event: the caller's, or the uuid4 the entry
\* point draws when none is given
chosen_correlation_id(req) ==
    IF req.correlation_id = "none" THEN "uuid4" ELSE req.correlation_id

\* RedisScheduledEventCreate(**kwargs) in _schedule_in_redis: the schema has
\* no field named body, so the body is ignored and payload keeps its default
schedule_in_redis(req) ==
    [topic |-> req.topic, payload |-> [kind |-> "empty", value |-> "none"],
     correlation_id |-> chosen_correlation_id(req), headers |-> {},
     source |-> "redis", source_id |-> "none"]

\* the C row of a request: _schedule_in_clickhouse (body becomes payload),
\* handle_delayed_events (source_id is the correlation id, the inbound
\* headers are kept) and _process_mongo_schedule (the hybrid service passes
\* no correlation id and the model's default_factory draws one)
clickhouse_row(req) ==
    [topic |-> req.topic, payload |-> req.payload,
     correlation_id |-> chosen_correlation_id(req),
     headers |-> IF req.path = "intake" THEN {"original_topic", "delivery_time"} ELSE {},
     max_delay_seconds |-> IF req.path = "intake" THEN req.max_delay_seconds ELSE Day,
     source |-> CASE req.path = "intake" -> "kafka_delayed"
                  [] req.path = "cron" -> source_of_schedule_row
                  [] OTHER -> "api_request",
     source_id |-> CASE req.path = "intake" -> chosen_correlation_id(req)
                     [] req.path = "cron" -> "definition"
                     [] OTHER -> "none"]

\* the RedisScheduledEventCreate _transfer_to_redis builds from a C row.
\* ThreeTierSchedulerService: payload is the queue-time record, headers and
\* max_delay_seconds are not passed. HybridSchedulerService: payload is
\* {'data': row.payload}, no correlation id, source and source_id.
transfer_to_redis(row) ==
    IF service = "three_tier"
    THEN [topic |-> row.topic, payload |-> [kind |-> "queue_time", value |-> "none"],
          correlation_id |-> row.correlation_id, headers |-> {},
          source |-> row.source, source_id |-> row.source_id]
    ELSE [topic |-> row.topic, payload |-> [kind |-> "data", value |-> row.payload.value],
          correlation_id |-> "none", headers |-> {},
          source |-> "redis", source_id |-> "none"]

\* the kafka_message of _process_redis_event and the send of _publish_to_kafka
kafka_message(ev) ==
    [sent |-> TRUE, topic |-> "scheduled_events",
     value |-> [event_data |-> ev.payload, source |-> ev.source, source_id |-> ev.source_id,
                metadata |-> ev.headers],
     headers |-> {"schedule_id"}]

\* an entry point stores the event: schedule_event in K or C,
\* handle_delayed_events and _process_mongo_schedule in C
FlowSchedule ==
    /\ flow = NoFlow
    /\ \E req \in Requests :
          /\ req.path \in {"api_k", "api_c"} => service = "hybrid"
          /\ req.path = "cron" => req.correlation_id = "none"
          /\ flow' = IF req.path = "api_k"
                     THEN [stage |-> "k", request |-> req, row |-> NoRow,
                           event |-> schedule_in_redis(req), message |-> NoMessage,
                           late |-> 0]
                     ELSE [stage |-> "c", request |-> req, row |-> clickhouse_row(req),
                           event |-> NoValue, message |-> NoMessage, late |-> 0]
    /\ UNCHANGED <<service, sdef, now, store, ch, nextId, nextRow, workers, monitor, history,
                   updates, api_error, promoter, cron, cb, peer, retry>>

\* the Promoter transfers the row
FlowTransfer ==
    /\ flow.stage = "c"
    /\ flow' = [flow EXCEPT !.stage = "k", !.event = transfer_to_redis(flow.row)]
    /\ UNCHANGED <<service, sdef, now, store, ch, nextId, nextRow, workers, monitor, history,
                   updates, api_error, promoter, cron, cb, peer, retry>>

\* the Dispatcher processes the event, late units after its scheduled_at:
\* ThreeTierSchedulerService publishes, HybridSchedulerService only marks it
FlowDispatch ==
    /\ flow.stage = "k"
    /\ \E l \in {0, 2} :
          flow' = [flow EXCEPT !.stage = "processed", !.late = l,
                               !.message = IF service = "three_tier"
                                           THEN kafka_message(flow.event)
                                           ELSE NoMessage]
    /\ UNCHANGED <<service, sdef, now, store, ch, nextId, nextRow, workers, monitor, history,
                   updates, api_error, promoter, cron, cb, peer, retry>>

\* ---- specifications ----

Dispatch == \E r \in Replicas :
    Scan(r) \/ Claim(r) \/ PublishOk(r) \/ MarkProcessed(r) \/ PublishFail(r) \/ Crash(r)

HybridDispatch == \E h \in Replicas : HybridScan(h) \/ HybridProcess(h)

HealthMonitor == CleanupScan \/ CleanupExec

\* the engine: events entering K, workers, clock
NextEngine == CreateEvent \/ Tick \/ Dispatch \/ HybridDispatch \/ HealthMonitor

\* the engine with the admin surface over the K tier
Next == NextEngine \/ Update \/ Delete

Spec == Init /\ [][Next]_vars

SpecEngine == Init /\ [][NextEngine]_vars

\* ---- the ready scan under a limit that bites ----

\* the limit of the Dispatcher's scan, scaled to the model's number of events:
\* one scan holds fewer ids than the index can hold entries
ScanLimit == 1

\* top of the Dispatcher loop with that limit: start_time, get_ready_events(limit)
DispatcherTick(r) ==
    /\ service = "three_tier"
    /\ pc[r] = "idle"
    /\ get_ready_events(ScanLimit) # <<>>
    /\ batch' = [batch EXCEPT ![r] = get_ready_events(ScanLimit)]
    /\ tick_time' = [tick_time EXCEPT ![r] = now]
    /\ pc' = [pc EXCEPT ![r] = "loop"]
    /\ UNCHANGED <<service, aux, cron, nextRow, promoter, now, store, ch, nextId, monitor, history, updates, api_error>>

\* the loop sleeps redis_process_interval = 1 s between scans, many scans per
\* unit of the clock: the clock advances only when no idle Dispatcher has a
\* non-empty scan still to take
PolledTick ==
    /\ \A r \in Replicas : pc[r] # "idle" \/ get_ready_events(ScanLimit) = <<>>
    /\ Tick

WorkerStep(r) == Claim(r) \/ PublishOk(r) \/ MarkProcessed(r) \/ PublishFail(r) \/ Crash(r)

NextScan ==
    \/ CreateEvent
    \/ PolledTick
    \/ \E r \in Replicas : DispatcherTick(r) \/ WorkerStep(r)
    \/ HealthMonitor

\* the ThreeTierSchedulerService's loops run for as long as the service runs:
\* every loop step is weakly fair; which way an awaited publish ends is not
SpecScan ==
    /\ Init
    /\ [][NextScan]_vars
    /\ WF_vars(PolledTick)
    /\ WF_vars(HealthMonitor)
    /\ \A r \in Replicas : WF_vars(DispatcherTick(r)) /\ WF_vars(WorkerStep(r))

\* the scheduling API alone, over every kind of delay
ApiSchedule == \E d \in ApiDelays : schedule_event(now + d)

NextApi == ApiSchedule \/ Tick

SpecApi == Init /\ [][NextApi]_vars

\* the Promoter, a manual transfer, the delayed intake and the clock
Promoter == PromoterScan \/ TransferCreate \/ TransferMark \/ TransferMarkFail

ManualTransfer == ManualRead \/ ManualCreate \/ ManualMark \/ ManualMarkFail

NextPromoter == Intake \/ Tick \/ Promoter \/ ManualTransfer

SpecPromoter == Init /\ [][NextPromoter]_vars

\* the Promoter loop alone, with failing C writes
NextPromoterTick == Intake \/ Tick \/ Promoter

SpecPromoterTick == Init /\ [][NextPromoterTick]_vars

\* the Promoter without injected faults, every worker step weakly fair: the
\* transfer loop runs for as long as the service runs
PromoterStep == PromoterScan \/ TransferCreate \/ TransferMark

NextPromoterFair == Intake \/ Tick \/ PromoterStep

SpecPromoterFair ==
    /\ Init
    /\ [][NextPromoterFair]_vars
    /\ WF_vars(PromoterScan)
    /\ WF_vars(TransferCreate)
    /\ WF_vars(TransferMark)
    /\ WF_vars(Tick)

\* the C store under its own operations
NextCStore ==
    Intake \/ Tick \/ CUpdateStatus \/ CAcquireLock \/ CMarkTransferred
    \/ CBulkMarkTransferred \/ CUpdate

SpecCStore == Init /\ [][NextCStore]_vars

\* the schedule processor over definitions already stored in D, some of them
\* overdue because no cycle ran for a while
InitNextFire == {-3, 1}

InitDefs ==
    [status : {"active"}, cron_expression : CronPeriods,
     next_execution : InitNextFire, last_execution : {NoTime},
     execution_count : {0}, last_status : {"none"}, last_error : {"none"}]
    \cup [status : {"paused"}, cron_expression : {1},
          next_execution : {-3}, last_execution : {NoTime},
          execution_count : {0}, last_status : {"none"}, last_error : {"none"}]
    \cup [status : {"active"}, cron_expression : {InvalidCron},
          next_execution : {-3}, last_execution : {NoTime},
          execution_count : {0}, last_status : {"none"}, last_error : {"none"}]

InitCron ==
    /\ InitStores
    /\ defs \in [DefIds -> InitDefs]
    /\ sdef = NoDef

CronGenerator ==
    CronScan \/ CronCreate \/ CronCreateFail \/ CronRecord \/ CronRecordFail
    \/ CronAdvance \/ CronAdvanceFail

NextCron == Tick \/ CronGenerator

SpecCron == InitCron /\ [][NextCron]_vars

\* the admin router over an empty D
NextDefs == CreateSchedule \/ SetScheduleStatus \/ Tick

SpecDefs == Init /\ [][NextDefs]_vars

\* two replicas of the schedule processor over active definitions, no store
\* failing
InitReplicas ==
    /\ InitCron
    /\ \A d \in DefIds :
          defs[d].status = "active" /\ defs[d].cron_expression # InvalidCron

NextReplicas ==
    Tick \/ CronScan \/ CronCreate \/ CronRecord \/ CronAdvance \/ PeerScan \/ PeerProcess

SpecReplicas == InitReplicas /\ [][NextReplicas]_vars

\* one circuit breaker and its callers
NextBreaker == BreakerCall \/ BreakerWait \/ BreakerReset

SpecBreaker == Init /\ [][NextBreaker]_vars

\* execute_with_retry over one circuit breaker
NextRetry == RetryStart \/ RetryAttempt \/ BreakerWait

SpecRetry == Init /\ [][NextRetry]_vars

\* calculate_delay over its inputs
SpecDelay == Init /\ [][CalculateDelay]_vars

\* the sync of one event class over a document as an earlier sync and the
\* admins have left it
InitSync ==
    /\ InitStores
    /\ defs = [d \in DefIds |-> NoDef]
    /\ sdef \in {NoDef} \cup
          [cron_expression : {"c1", "m1"}, payload : {"p1", "m2"},
           status : {"active", "disabled"}, last_sync_at : {"None"},
           manual_cron_override : {"None", "m1"},
           manual_payload_override : {"None", "{}", "m2"},
           manual_status_override : {"None", "disabled"},
           last_execution_at : {NoTime}, next_execution_at : {NoTime},
           execution_count : {0}, error_count : {0}, last_error : {"None"}]

SpecSync == InitSync /\ [][UpsertFromClass \/ UpdateExecutionInfo]_vars

\* one event from its entry point to the bus
NextFlow == FlowSchedule \/ FlowTransfer \/ FlowDispatch

SpecFlow == Init /\ [][NextFlow]_vars

\* ---- properties ----

Holds(r, e) == pc[r] \in {"publishing", "published"} /\ Head(batch[r]).event_id = e

\* C1: for every K event, whatever the interleaving of the dispatcher
\* replicas' ticks, the bus receives at most one publish for that event.
C1_AtMostOnePublish == \A e \in EventIds : bus[e] <= 1

\* two replicas read the same event in their ticks and one of them published it
C1_Witness ==
    \E e \in EventIds : \E r1, r2 \in Replicas :
        /\ r1 # r2
        /\ bus[e] = 1
        /\ Holds(r1, e)
        /\ pc[r2] = "loop" /\ Head(batch[r2]).event_id = e

\* C2: at most one claim_for_processing call per event returns True, and a
\* replica whose claim returns False skips the event: it does not publish it
\* and changes neither its value nor its index entry.
C2_SingleClaimAndSkip ==
    /\ [](\A e \in EventIds : claims[e] <= 1 /\ Cardinality({r \in Replicas : Holds(r, e)}) <= 1)
    /\ [][\A r \in Replicas :
            (service = "three_tier" /\ pc[r] = "loop"
             /\ ~claim_for_processing(Head(batch[r]).event_id) /\ batch'[r] # batch[r])
            => (kv' = kv /\ index' = index /\ bus' = bus /\ claims' = claims
                /\ batch'[r] = Tail(batch[r]) /\ pc'[r] \in {"idle", "loop"})]_vars

\* one replica holds the claim while the other one is about to claim the same event
C2_Witness ==
    \E e \in EventIds : \E r1, r2 \in Replicas :
        /\ r1 # r2
        /\ claims[e] = 1
        /\ Holds(r1, e)
        /\ kv[e].status = "reserved" /\ kv[e].processor_id = r1
        /\ pc[r2] = "loop" /\ Head(batch[r2]).event_id = e

Orphan(e) == kv[e].status = "reserved" /\ ~\E r \in Replicas : Holds(r, e)

\* C3: an event scheduled directly into K and never cancelled is eventually
\* published; in particular no engine-internal operation removes a
\* still-pending event before it is published.
C3_PendingNeverDropped ==
    [][\A e \in EventIds :
          (get(e).status = "pending" /\ bus[e] = 0 /\ kv'[e] = NoValue /\ now' = now)
          => e \in removed']_vars

\* C5: crash recovery: a cleanup cycle that runs entirely after the lock
\* timeout of a claim whose dispatcher died leaves the event pending again,
\* with its index entry present.
C5_CrashRecovery ==
    [][(hm_pc = "exec" /\ hm_pc' = "idle") =>
          \A e \in EventIds :
              (Orphan(e) /\ kv[e].claimed_at + LockTimeout <= hm_start)
              => (kv'[e].status = "pending" /\ index'[e] = kv'[e].scheduled_at)]_vars

\* C6: a failed publish increments retry_count; while retry_count <=
\* max_retries the event goes back to pending and keeps its index entry;
\* only beyond max_retries it becomes error and leaves the index.
C6_RetryOnPublishFailure ==
    [][\A r \in Replicas :
          (PublishFail(r) /\ get(Head(batch[r]).event_id) # NoValue)
          => LET e == Head(batch[r]).event_id
             IN /\ kv'[e].retry_count = kv[e].retry_count + 1
                /\ IF kv'[e].retry_count <= kv[e].max_retries
                   THEN kv'[e].status = "pending" /\ index'[e] # NoScore
                   ELSE kv'[e].status = "error" /\ index'[e] = NoScore]_vars

\* C7: every id in the time-sorted index has a live value record whose
\* status is pending or reserved.
C7_IndexedImpliesLiveValue ==
    \A e \in EventIds :
        index[e] # NoScore => get(e).status \in {"pending", "reserved"}

\* C8: every value record whose status is pending or reserved has an entry
\* in the time-sorted index.
C8_LiveValueImpliesIndexed ==
    \A e \in EventIds :
        get(e).status \in {"pending", "reserved"} => index[e] # NoScore

\* C10: ScheduleEvent stores the event in exactly one tier chosen by its
\* delay: a scheduled-at in the future with delay <= 1 h puts the event into
\* K and not into C, delay > 1 h puts it into C as pending and not into K.
C10_TierByDelay ==
    [][\A d \in ApiDelays :
          (d > 0 /\ schedule_event(now + d)) =>
             IF d <= TransferWindow
             THEN /\ kv'[nextId] = NewEvent(now + d, now)
                  /\ index'[nextId] = now + d
                  /\ ch' = ch
             ELSE /\ ch'[nextRow] = NewRow(now + d, "api_request", NoRef)
                  /\ kv' = kv
                  /\ index' = index]_vars

\* C11: CancelEvent (delete on K) removes the event only if it is still
\* pending; on an event that is not pending (claimed: reserved) it removes
\* nothing, leaves value and index entry as they are and does not report a
\* removal.
C11_CancelOnlyPending ==
    [][\A e \in EventIds :
          (delete(e) /\ get(e) # NoValue /\ get(e).status # "pending")
          => (kv'[e] = kv[e] /\ index'[e] = index[e] /\ removed' = removed)]_vars

\* C12: every C row that is pending with scheduled_at <= now + 1 h is
\* eventually promoted by repeated Promoter ticks, also when its scheduled_at
\* is already in the past when the Promoter first sees it.
C12_EventuallyPromoted ==
    \A c \in RowIds :
        (ch[c].status = "pending" /\ ch[c].scheduled_at <= now + TransferWindow)
        ~> (ch[c].status = "transferred_to_redis")

\* K records and index entries that carry C row c as their back-reference
CopiesOf(c) == {e \in EventIds : kv[e] # NoValue /\ kv[e].clickhouse_schedule_id = c}
IndexedCopiesOf(c) == {e \in CopiesOf(c) : index[e] # NoScore}

\* C13: promotion is idempotent: however often the transfer runs on the same
\* C row, K holds at most one value and one index entry for that row.
C13_PromotionIdempotent ==
    \A c \in RowIds :
        Cardinality(CopiesOf(c)) <= 1 /\ Cardinality(IndexedCopiesOf(c)) <= 1

\* C14: a C row is transferred_to_redis only if a K value and index entry
\* with that row as back-reference were written before the status changed,
\* and a transfer whose K write fails leaves the row pending.
C14_PromotedOwnedByK ==
    /\ [](\A c \in RowIds : ch[c].status = "transferred_to_redis" => copies[c] >= 1)
    /\ [][\A c \in RowIds :
            (ch[c].status # "transferred_to_redis" /\ ch'[c].status = "transferred_to_redis")
            => (ch[c].status = "pending" /\ copies[c] >= 1 /\ UNCHANGED <<kv, index>>)]_vars
    /\ [][(tr_pc = "loop" /\ ~create_ok(Head(tr_batch).scheduled_at) /\ tr_batch' # tr_batch)
            => (ch' = ch /\ kv' = kv /\ index' = index)]_vars
    /\ [][(man_pc = "create" /\ ~create_ok(man_row.scheduled_at) /\ man_pc' # man_pc)
            => (ch' = ch /\ kv' = kv /\ index' = index)]_vars

\* one row is promoted and its K copy is indexed, another row's K write was
\* refused and it is still pending
C14_Witness ==
    \E c1, c2 \in RowIds :
        /\ ch[c1].status = "transferred_to_redis" /\ IndexedCopiesOf(c1) # {}
        /\ ch[c2].status = "pending" /\ ch[c2].scheduled_at <= now /\ copies[c2] = 0
        /\ tr_pc = "idle" /\ tr_time = 0

\* position of a C status in pending -> (processing | promoted) -> terminal
Rank(st) ==
    IF st = "pending" THEN 0
    ELSE IF st \in {"processing", "transferred_to_redis"} THEN 1
    ELSE 2

\* C15: the status of every C row only advances pending -> (processing |
\* promoted) -> (completed | error | skipped) under the C store's operations,
\* and only a pending row becomes promoted.
C15_StatusMonotonic ==
    [][\A c \in RowIds :
          (ch[c] # NoRow /\ ch'[c] # NoRow) =>
             /\ Rank(ch'[c].status) >= Rank(ch[c].status)
             /\ (ch'[c].status = "transferred_to_redis" /\ ch[c].status # "transferred_to_redis")
                => ch[c].status = "pending"]_vars

\* the processor inserts the C row of definition d in this step
CronCreates(d) == cg_pc = "process" /\ cg_pc' = "record" /\ Head(cg_batch).id = d

\* C16: catch-up suppression. A cycle of the schedule processor creates one C
\* row per due definition, however many periods its next_execution lies in
\* the past; the row is scheduled after the cycle's start (with
\* ThreeTierSchedulerService: at the first firing of the cron expression
\* after it), and the bookkeeping step moves next_execution to that time.
C16_CatchUpSuppression ==
    [][\A d \in DefIds :
          /\ CronCreates(d)
             => /\ cg_made'[d] = 1
                /\ ch'[cg_row'].scheduled_at > cg_time
                /\ service = "three_tier"
                   => /\ ch'[cg_row'].scheduled_at % Head(cg_batch).cron_expression = 0
                      /\ ch'[cg_row'].scheduled_at - Head(cg_batch).cron_expression <= cg_time
          /\ (cg_pc = "advance" /\ defs'[d] # defs[d])
             => /\ defs'[d].next_execution = ch[cg_row].scheduled_at
                /\ defs'[d].next_execution > cg_time]_vars

\* a definition at least two periods overdue got its single row, scheduled
\* after the cycle's start, and its bookkeeping is about to advance
C16_Witness ==
    /\ service = "three_tier"
    /\ cg_pc = "advance"
    /\ Head(cg_batch).next_execution + 2 * Head(cg_batch).cron_expression <= cg_time
    /\ cg_made[Head(cg_batch).id] = 1
    /\ ch[cg_row].scheduled_at > cg_time
    /\ Cardinality({c \in RowIds : ch[c] # NoRow /\ ch[c].source_id = Head(cg_batch).id}) = 1

\* C17: the C row the schedule processor creates for a due definition is
\* scheduled at the fire time F, the next_execution the definition had when
\* the cycle read it, with source mongo_schedule and the definition's id as
\* source_id.
C17_ScheduledAtFireTime ==
    cg_pc = "record"
    => /\ ch[cg_row].scheduled_at = Head(cg_batch).next_execution
       /\ ch[cg_row].source = "mongo_schedule"
       /\ ch[cg_row].source_id = Head(cg_batch).id

\* the processor gives up on the definition at the head of the batch while
\* inserting its C row
CronCreateFails(d) == cg_pc = "process" /\ cg_pc' # "record" /\ Head(cg_batch).id = d

\* C18: when the insert of the C row fails, the definition's bookkeeping
\* (next_execution, last_execution, execution_count) is left as it was, no
\* execution record is appended and no row is stored, so the definition is
\* still due and the next cycle selects it again.
C18_InsertFailureLeavesBookkeeping ==
    [][\A d \in DefIds :
          CronCreateFails(d)
          => /\ defs'[d] = defs[d]
             /\ execs' = execs
             /\ ch' = ch
             /\ d \in get_schedules_due_for_execution(now)']_vars

\* the cycle read two due definitions; the insert for the first one failed:
\* no row and no execution record exist, its bookkeeping is as it was and it
\* is still due
C18_Witness ==
    /\ cg_pc = "process"
    /\ Len(cg_batch) = 1
    /\ \A c \in RowIds : ch[c] = NoRow
    /\ execs = {}
    /\ \E d \in DefIds \ {Head(cg_batch).id} :
          /\ d \in get_schedules_due_for_execution(cg_time)
          /\ d \in get_schedules_due_for_execution(now)
          /\ defs[d].execution_count = 0
          /\ defs[d].last_execution = NoTime

\* C19: every C row with source mongo_schedule has an execution record in D
\* whose clickhouse_schedule_id is the row's id, also after record_execution
\* or update_next_execution failed; the processor is given the time between
\* the insert and the return of record_execution.
C19_CronRowHasExecutionRecord ==
    \A c \in RowIds :
        (ch[c] # NoRow /\ ch[c].source = "mongo_schedule" /\ ~(cg_pc = "record" /\ cg_row = c))
        => \E x \in execs : x.clickhouse_schedule_id = c

\* the C rows created for definition d
RowsOf(d) == {c \in RowIds : ch[c] # NoRow /\ ch[c].source_id = d}

\* C20: within one definition the fire times of the created C rows increase
\* strictly from cycle to cycle: a new row is scheduled after every row of
\* the definition that the bookkeeping has caught up with (scheduled_at <=
\* next_execution), so no (definition, fire time) pair is created twice after
\* a clean bookkeeping update.
C20_FireTimesIncrease ==
    [][\A d \in DefIds :
          CronCreates(d)
          => \A c \in RowsOf(d) :
                ch[c].scheduled_at <= defs[d].next_execution
                => ch[c].scheduled_at < ch'[cg_row'].scheduled_at]_vars

\* a definition whose first row was recorded and book-kept has just got its
\* second row, for a later fire time
C20_Witness ==
    /\ cg_pc = "record"
    /\ \E c \in RowsOf(Head(cg_batch).id) :
          /\ c # cg_row
          /\ defs[Head(cg_batch).id].next_execution = ch[c].scheduled_at
          /\ defs[Head(cg_batch).id].execution_count = 1
          /\ \E x \in execs : x.clickhouse_schedule_id = c
          /\ ch[c].scheduled_at < ch[cg_row].scheduled_at

\* C21: when the cron expression of a due definition cannot be parsed, the
\* schedule processor marks the definition disabled and records the error
\* on it, so that later cycles do not select it.
C21_ParseFailureDisables ==
    [][\A d \in DefIds :
          (service = "three_tier" /\ CronCreateFails(d)
            /\ Head(cg_batch).cron_expression = InvalidCron)
          => /\ defs'[d].status = "disabled"
             /\ defs'[d].last_error # "none"
             /\ d \notin get_schedules_due_for_execution(now)']_vars

\* C22: every stored definition with status active has its next_execution
\* set, from its creation on and after activate / deactivate, so that the
\* schedule processor's due query can select it.
C22_ActiveHasNextExecution ==
    \A d \in DefIds :
        (defs[d] # NoDef /\ defs[d].status = "active") => defs[d].next_execution # NoTime

C24_DispatchInScoreOrder ==
    [][\A r \in Replicas :
          ((pc[r] = "loop" /\ pc'[r] = "publishing") \/ (pc[r] = "publishing" /\ pc'[r] = "published"))
          => \A i \in 2..Len(batch[r]) :
                batch[r][i].scheduled_at # Head(batch[r]).scheduled_at
                => Head(batch[r]).scheduled_at < batch[r][i].scheduled_at]_vars

\* a replica has published the first event of its cycle and the next one it
\* read has a higher score
C24_Witness ==
    \E r \in Replicas :
        /\ pc[r] = "published"
        /\ Len(batch[r]) >= 2
        /\ bus[batch[r][1].event_id] = 1
        /\ bus[batch[r][2].event_id] = 0
        /\ index[batch[r][1].event_id] < index[batch[r][2].event_id]

\* C25: an event the Dispatcher processes more than max_delay_seconds after
\* its scheduled_at is still published, and the message says so with a
\* stale header; it is not dropped or skipped.
C25_StalePublishedWithHeader ==
    (flow.stage = "processed" /\ service = "three_tier" /\ flow.row # NoRow
      /\ flow.late > flow.row.max_delay_seconds)
    => /\ flow.message.sent
       /\ "stale" \in flow.message.value.metadata \cup flow.message.headers

\* C27: the correlation id chosen when the event is created (or carried by
\* the inbound delayed message) is the one on the C row, on the K event and
\* in the published message, on every path.
C27_CorrelationIdPreserved ==
    flow # NoFlow =>
        /\ flow.row # NoRow =>
              flow.row.correlation_id = chosen_correlation_id(flow.request)
        /\ flow.event # NoValue =>
              flow.event.correlation_id = chosen_correlation_id(flow.request)
        /\ flow.message.sent =>
              /\ "correlation_id" \in DOMAIN flow.message.value
              /\ flow.message.value.correlation_id = chosen_correlation_id(flow.request)

\* C28: the published message goes to the event's own topic and carries
\* the payload as it was given; promoting a C row to K leaves the payload
\* as it is.
C28_TopicAndPayloadPreserved ==
    flow # NoFlow =>
        /\ (flow.row # NoRow /\ flow.event # NoValue) =>
              flow.event.payload = flow.row.payload
        /\ flow.message.sent =>
              /\ flow.message.topic = flow.request.topic
              /\ flow.message.value.event_data = flow.request.payload

\* C26: the pipeline of cleanup_expired deletes neither the value nor the
\* index entry of an event whose value record exists with status pending
\* or reserved; it prunes only index entries without a live value.
C26_CleanupSparesLiveEvents ==
    [][(hm_pc = "exec" /\ hm_pc' = "idle")
       => \A e \in EventIds :
             (kv[e] # NoValue /\ kv[e].status \in {"pending", "reserved"})
             => (kv'[e] = kv[e] /\ index'[e] = index[e])]_vars

\* C29: with two replicas of the schedule processor running, a definition
\* never gets two C rows for the same fire time.
C29_OneRowPerFiring ==
    \A c1, c2 \in RowIds :
        (/\ c1 # c2
         /\ ch[c1] # NoRow /\ ch[c2] # NoRow
         /\ ch[c1].source = source_of_schedule_row
         /\ ch[c2].source = source_of_schedule_row
         /\ ch[c1].source_id = ch[c2].source_id)
        => ch[c1].scheduled_at # ch[c2].scheduled_at

\* C30: the circuit breaker protocol. A failed call in the closed state opens
\* the breaker exactly when it is the failure_threshold-th failure in a row;
\* a success sets the count to zero and closes the breaker; an open breaker
\* rejects a call before the cooldown has elapsed and runs the call as a
\* trial once it has.
C30_BreakerProtocol ==
    [][(cb'.clock = cb.clock /\ cb'.last_call # "none")
       => /\ (cb.state = "closed" /\ cb'.last_call = "failure")
                => (cb'.state = "open" <=> cb.failure_count + 1 >= FailureThreshold)
          /\ cb'.last_call = "success"
                => (cb'.failure_count = 0 /\ cb'.state = "closed")
          /\ (cb.state = "open" /\ cb.clock - cb.last_failure_time < RecoveryTimeout)
                => (cb'.last_call = "rejected" /\ cb'.state = "open")
          /\ (cb.state = "open" /\ cb.clock - cb.last_failure_time >= RecoveryTimeout)
                => cb'.last_call # "rejected"]_vars

\* C31: an attempt of execute_with_retry that the open breaker rejects, and
\* that is not the last attempt of the loop, is followed by a later attempt:
\* the call does not give up on the fail-fast error.
C31_CircuitOpenIsRetried ==
    [][(retry.pc = "attempt" /\ retry.attempt < LoopAttempts
        /\ retry'.rejected > retry.rejected)
       => retry'.pc = "attempt"]_vars

\* C38: execute_with_retry without a custom config, on a function that fails
\* every time with the same error, has invoked it exactly max_attempts times
\* of that error type's policy when it raises, and raises that error.
C38_AttemptsPerPolicy ==
    retry.pc = "raised"
    => /\ retry.invoked = ERROR_STRATEGIES[classify_error(retry.func_error)].max_attempts
       /\ retry.last_error = retry.func_error

\* C39: calculate_delay returns a value from 0 to max_delay for every
\* strategy and attempt, with jitter on or off; with jitter off the
\* exponential delay is min(base_delay * multiplier^(attempt - 1), max_delay)
\* and does not decrease with the attempt number.
C39_DelayWithinBounds ==
    retry.pc = "delay"
    => LET cfg == retry.config
           exp(a) == cfg.base_delay * (cfg.multiplier ^ (a - 1))
       IN /\ retry.delay >= 0
          /\ retry.delay <= cfg.max_delay
          /\ (~cfg.jitter /\ cfg.strategy = "exponential_backoff")
             => /\ retry.delay = IF exp(retry.attempt) < cfg.max_delay
                                 THEN exp(retry.attempt) ELSE cfg.max_delay
                /\ retry.delay <= calculate_delay(cfg, retry.attempt + 1, 0)

\* C40: a closed breaker has fewer than failure_threshold failures counted,
\* an open or half-open one has at least failure_threshold, whatever calls
\* and resets came before; a failed trial call of an open breaker past its
\* cooldown, or of a half-open one, leaves the breaker open.
C40_BreakerStateInvariant ==
    /\ [](/\ cb.state = "closed" => cb.failure_count < FailureThreshold
          /\ cb.state \in {"open", "half_open"} => cb.failure_count >= FailureThreshold)
    /\ [][(cb.state \in {"open", "half_open"} /\ cb'.clock = cb.clock
           /\ cb'.failure_count > cb.failure_count)
          => cb'.state = "open"]_vars

\* a trial call has failed: the count has gone past the threshold
C40_Witness ==
    /\ cb.state = "open"
    /\ cb.last_call = "failure"
    /\ cb.failure_count > FailureThreshold

\* C32: a sync of an existing definition from its class leaves
\* cron_expression as it is when manual_cron_override is set, payload when
\* manual_payload_override is set and status when manual_status_override is
\* set, and never touches the execution bookkeeping.
C32_SyncPreservesOverrides ==
    [][(sdef # NoDef /\ sdef'.execution_count = sdef.execution_count)
       => /\ sdef.manual_cron_override # "None"
                => sdef'.cron_expression = sdef.cron_expression
          /\ sdef.manual_payload_override # "None" => sdef'.payload = sdef.payload
          /\ sdef.manual_status_override # "None" => sdef'.status = sdef.status
          /\ sdef'.next_execution_at = sdef.next_execution_at
          /\ sdef'.last_execution_at = sdef.last_execution_at
          /\ sdef'.error_count = sdef.error_count]_vars

\* C33: a K event is completed only when a publish of it has succeeded, and
\* an event that was published does not have status error.
C33_CompletedOnlyAfterPublish ==
    \A e \in EventIds :
        /\ kv[e].status = "completed" => bus[e] > 0
        /\ bus[e] > 0 => kv[e].status # "error"

\* C34: every K event is counted at most once in the terminal statistics:
\* total_completed + total_error never exceeds total_created.
C34_TerminalCountedOnce ==
    stats.total_completed + stats.total_error <= stats.total_created

\* C37: once delete(event_id) has returned true for a K event, no step publishes
\* that event to the bus any more.
C37_NoPublishAfterDelete ==
    [][\A e \in EventIds : e \in removed => bus'[e] = bus[e]]_vars

\* C36: a C row yields at most one K event, also when trigger_manual_transfer and
\* the Promoter tick handle the same pending row at the same time.
C36_OneEventPerRow ==
    \A c \in RowIds : copies[c] <= 1

\* C35: no starvation in the ready scan: every due pending event of the index
\* is eventually returned by get_ready_events(limit) on some Dispatcher tick
\* of the ThreeTierSchedulerService.
C35_NoStarvation ==
    \A e \in EventIds :
        (service = "three_tier" /\ index[e] # NoScore /\ index[e] <= now /\ IsPending(e))
            ~> (\E r \in Replicas : \E i \in 1..Len(batch[r]) : batch[r][i].event_id = e)

TypeOK ==
    /\ now \in 0..MaxTime
    /\ nextId \in 1..(MaxEvents + 1)
    /\ nextRow \in 1..(MaxRows + 1)
    /\ cg_pc \in {"idle", "process", "record", "advance"}
    /\ \A d \in DefIds : defs[d].status \in {"none", "active", "paused", "disabled"}
    /\ \A e \in EventIds : kv[e].status \in {"none", "pending", "reserved", "completed", "error"}
    /\ \A e \in EventIds : index[e] = NoScore \/ index[e] >= 0
    /\ \A r \in Replicas : pc[r] \in {"idle", "loop", "publishing", "published"}
    /\ service = "hybrid" => \A h \in Replicas : pc[h] \in {"idle", "loop"}
    /\ hm_pc \in {"idle", "exec"}
    /\ hm_del \subseteq EventIds
    /\ updates \in 0..MaxUpdates
    /\ api_error \in {"none", "ValueError", "ValidationError", "already exists"}
====
